---- MODULE Spec2Model ----
(***************************************************************************)
(* Jupyter notebook live execution logger (juplaunc.py).                   *)
(*                                                                         *)
(* The main thread runs monitor_all_kernels: it polls the runtime          *)
(* directory and starts one daemon thread per new kernel id.  Each thread  *)
(* runs NotebookExecutionLogger.monitor_kernel, polling the three channels *)
(* of its kernel and appending records to one shared log file.  SIGINT     *)
(* runs main.signal_handler on the main thread while the daemon threads    *)
(* keep running.  There is no lock anywhere in the program: every step     *)
(* that touches shared state (running, cell_count, the log file) is an     *)
(* action of its own, so that threads interleave between them.             *)
(***************************************************************************)
EXTENDS Integers, Sequences, FiniteSets, TLC

\* ------------------------------------------------------------------ bounds
\* Messages the kernels publish during one run: under Spec (the whole life
\* cycle), under SpecStreams (two kernels streaming concurrently) and under
\* SpecKinds (every message kind fed to the classifier).
MaxMsgs == 1
MaxStreamMsgs == 2
MaxKindMsgs == 2
\* ... under SpecCount (two kernels, execute_input only) and under SpecLive
\* (one kernel, fair scheduling of the monitor threads).
MaxCountMsgs == 3
MaxLiveMsgs == 2

\* ---------------------------------------------------------------- universe
\* Connection files that may exist in the runtime directory:
\* kernel-k1.json, kernel-k2.json and kernel-kernel-k1.json.
KernelFiles == {"kernel-k1", "kernel-k2", "kernel-kernel-k1"}

\* kf.stem.replace('kernel-', '') removes every occurrence of the prefix.
KernelIdOf(kf) ==
    CASE kf = "kernel-k1" -> "k1"
      [] kf = "kernel-k2" -> "k2"
      [] kf = "kernel-kernel-k1" -> "k1"

KernelIds == {KernelIdOf(kf) : kf \in KernelFiles}

Channels == {"iopub", "shell", "stdin"}

\* Shape of msg['content']:
\*   "dict"     a mapping with fields of the documented types
\*   "nondict"  not a mapping: content.get raises AttributeError
\*   "badprint" a mapping whose 'name' (stream) or 'data' (execute_result)
\*              is null: the record is written, the print after it raises
Shapes == {"dict", "nondict", "badprint"}

\* Messages <<channel, msg_type, shape>> a kernel may publish.  "status"
\* and "kernel_info_reply" stand for the kinds no branch matches, "comm_msg"
\* for a kind other than input_request on the stdin channel.
KindInputs ==
    ({"iopub"} \X {"execute_input", "stream", "execute_result", "error",
                   "display_data", "status"} \X {"dict"})
    \cup ({"iopub"} \X {"execute_input", "stream", "status"} \X {"nondict"})
    \cup ({"iopub"} \X {"stream", "execute_result"} \X {"badprint"})
    \cup ({"shell"} \X {"execute_reply", "kernel_info_reply"}
                    \X {"dict", "nondict"})
    \cup ({"stdin"} \X {"input_request"} \X {"dict", "nondict"})
    \cup ({"stdin"} \X {"comm_msg"} \X {"dict"})

StreamInputs ==
    {<<"iopub", "execute_input", "dict">>, <<"iopub", "stream", "badprint">>,
     <<"shell", "execute_reply", "dict">>}

LifeInputs ==
    {<<"iopub", "execute_input", "dict">>, <<"iopub", "stream", "badprint">>}

CountInputs ==
    {<<"iopub", "execute_input", "dict">>,
     <<"iopub", "execute_input", "nondict">>}

Message(id, ch, tag, shape) ==
    [id |-> id, channel |-> ch, tag |-> tag, shape |-> shape]

NoMsg == Message(0, "", "none", "dict")

\* ---------------------------------------------------------------- log file
\* One element per block of the file.  channel, tag and id are not written
\* by the program: they name the message a record was built from.
LogLine(kind, kernel_id, type, cell_number, m) ==
    [kind |-> kind, kernel_id |-> kernel_id, type |-> type,
     cell_number |-> cell_number, channel |-> m.channel, tag |-> m.tag,
     id |-> m.id]

Header == LogLine("header", "", "", 0, NoMsg)
Separator == LogLine("sep", "", "", 0, NoMsg)
Footer(total) == LogLine("footer", "", "", total, NoMsg)
NoEntry == LogLine("none", "", "", 0, NoMsg)

VARIABLES
    running,            \* logger.running
    cell_count,         \* logger.cell_count
    log,                \* contents of the log file
    monitored_kernels,  \* monitor_all_kernels: monitored_kernels
    threads,            \* kernel id -> number of monitor threads started
    rescanned,          \* history: a scan returned an id already monitored
    scan_failed,        \* history: the last scan raised
    rescanned_failed,   \* history: a scan returned an id whose monitor had
                        \* failed to attach
    mainpc,             \* position of the main thread
    jupyter_process,    \* "none" | "running" | "terminated"
    exit_code,          \* -1 while the process lives
    pc,                 \* kernel id -> position of its monitor thread
    chan,               \* kernel id -> channel -> queued messages
    sent,               \* messages published so far
    msg,                \* kernel id -> message being processed
    loaded,             \* kernel id -> value read by cell_count += 1
    entry,              \* kernel id -> log_entry dict being written
    handled             \* history: messages whose processing has ended

vars == <<running, cell_count, log, monitored_kernels, threads, rescanned,
          scan_failed, rescanned_failed, mainpc, jupyter_process, exit_code,
          pc, chan, sent, msg, loaded, entry, handled>>

scanVars == <<scan_failed, rescanned_failed>>
mainVars == <<monitored_kernels, threads, rescanned, scanVars, mainpc,
              jupyter_process, exit_code>>
threadVars == <<pc, msg, loaded, entry, handled>>

\* The process is alive until sys.exit; daemon threads die with it.
Alive == exit_code = -1

\* ------------------------------------------------------------- classifier
\* Mutation of RecordType: the branches of execute_result and display_data
\* exchanged.
RecordTypeSwapped(ch, tag) ==
    CASE ch = "iopub" /\ tag = "execute_input" -> "input"
      [] ch = "iopub" /\ tag = "stream" -> "stream"
      [] ch = "iopub" /\ tag = "execute_result" -> "display"
      [] ch = "iopub" /\ tag = "error" -> "error"
      [] ch = "iopub" /\ tag = "display_data" -> "output"
      [] ch = "shell" /\ tag = "execute_reply" -> "execute_reply"
      [] ch = "stdin" -> "stdin"
      [] OTHER -> "none"

\* Mutation of RecordType: process_shell_message without its msg_type test.
RecordTypeAnyShell(ch, tag) ==
    CASE ch = "iopub" /\ tag = "execute_input" -> "input"
      [] ch = "iopub" /\ tag = "stream" -> "stream"
      [] ch = "iopub" /\ tag = "execute_result" -> "output"
      [] ch = "iopub" /\ tag = "error" -> "error"
      [] ch = "iopub" /\ tag = "display_data" -> "display"
      [] ch = "shell" -> "execute_reply"
      [] ch = "stdin" -> "stdin"
      [] OTHER -> "none"

\* process_message / process_shell_message / process_stdin_message:
\* the 'type' of the record written for a message, "none" when no branch
\* matches.
RecordType(ch, tag) ==
    CASE ch = "iopub" /\ tag = "execute_input" -> "input"
      [] ch = "iopub" /\ tag = "stream" -> "stream"
      [] ch = "iopub" /\ tag = "execute_result" -> "output"
      [] ch = "iopub" /\ tag = "error" -> "error"
      [] ch = "iopub" /\ tag = "display_data" -> "display"
      [] ch = "shell" /\ tag = "execute_reply" -> "execute_reply"
      [] ch = "stdin" -> "stdin"
      [] OTHER -> "none"

\* The print that follows log_entry raises for these messages:
\* content.get('name', 'output').upper() and
\* content.get('data', {}).get('text/plain', '') on a null field.
PrintRaises(m) ==
    /\ m.shape = "badprint"
    /\ m.channel = "iopub"
    /\ m.tag \in {"stream", "execute_result"}

\* The channel polled after ch in one pass of the loop; after stdin the
\* pass ends with time.sleep(0.01) and the while condition is read again.
NextPos(ch) ==
    CASE ch = "iopub" -> "shell"
      [] ch = "shell" -> "stdin"
      [] ch = "stdin" -> "loop"

\* History entry: monitor k ended the processing of message m, having
\* written a record or not, with an exception or not.
Handled(k, m, logged, raised) ==
    [kernel_id |-> k, id |-> m.id, channel |-> m.channel, tag |-> m.tag,
     shape |-> m.shape, logged |-> logged, raised |-> raised]

\* ------------------------------------------------------------------- Init
\* State after NotebookExecutionLogger.__init__, the optional
\* start_jupyter_notebook and signal.signal, on entry to
\* monitor_all_kernels.
Init ==
    /\ running = TRUE
    /\ cell_count = 0
    /\ log = <<Header>>
    /\ monitored_kernels = {}
    /\ threads = [k \in KernelIds |-> 0]
    /\ rescanned = FALSE
    /\ scan_failed = FALSE
    /\ rescanned_failed = FALSE
    /\ mainpc = "poll"
    /\ jupyter_process \in {"none", "running"}
    /\ exit_code = -1
    /\ pc = [k \in KernelIds |-> "none"]
    /\ chan = [k \in KernelIds |-> [ch \in Channels |-> <<>>]]
    /\ sent = 0
    /\ msg = [k \in KernelIds |-> NoMsg]
    /\ loaded = [k \in KernelIds |-> 0]
    /\ entry = [k \in KernelIds |-> NoEntry]
    /\ handled = {}

\* The same, started with --no-start: no server process.
InitNoStart == Init /\ jupyter_process = "none"

\* ------------------------------------------------------------- discovery
\* Mutation of find_running_kernels: the files are returned although the
\* scan raised.
ScanFailureIgnored(files, scanFails) == files

\* find_running_kernels: the kernel-*.json files of the runtime directory,
\* or the empty list when the scan raises.
find_running_kernels(files, scanFails) ==
    IF scanFails THEN {} ELSE files

\* Mutation of NotMonitored: the membership test left out.
AlwaysNew(kernel_id, monitored) == TRUE

\* Mutation of NotMonitored: an id whose monitor failed to attach counts as
\* new again.
RetryFailed(kernel_id, monitored) ==
    kernel_id \notin monitored \/ pc[kernel_id] = "failed"

\* monitor_all_kernels line 209: a thread is started for an id that is not
\* yet in monitored_kernels.
NotMonitored(kernel_id, monitored) == kernel_id \notin monitored

\* monitor_all_kernels lines 207-217: the for loop over the scan result.
\* Returns the new monitored_kernels, thread counts and thread positions.
RECURSIVE StartMonitors(_, _, _, _)
StartMonitors(found, monitored, started, pos) ==
    IF found = {}
    THEN [monitored |-> monitored, started |-> started, pos |-> pos]
    ELSE LET kf == CHOOSE f \in found : TRUE
             kernel_id == KernelIdOf(kf)
         IN  IF NotMonitored(kernel_id, monitored)
             THEN StartMonitors(found \ {kf}, monitored \cup {kernel_id},
                                [started EXCEPT ![kernel_id] = @ + 1],
                                [pos EXCEPT ![kernel_id] = "attach"])
             ELSE StartMonitors(found \ {kf}, monitored, started, pos)

\* One iteration of the while loop of monitor_all_kernels: scan, start the
\* monitors of the new ids, sleep 2 seconds.
Poll(files, scanFails) ==
    /\ Alive
    /\ mainpc = "poll"
    /\ running
    /\ LET kernels == find_running_kernels(files, scanFails)
           r == StartMonitors(kernels, monitored_kernels, threads, pc)
       IN  /\ monitored_kernels' = r.monitored
           /\ threads' = r.started
           /\ pc' = r.pos
           /\ rescanned' =
                (rescanned \/ \E kf \in kernels :
                                 KernelIdOf(kf) \in monitored_kernels)
           /\ rescanned_failed' =
                (rescanned_failed \/ \E kf \in kernels :
                                        pc[KernelIdOf(kf)] = "failed")
    /\ scan_failed' = scanFails
    /\ UNCHANGED <<running, cell_count, log, mainpc, jupyter_process,
                   exit_code, chan, sent, msg, loaded, entry, handled>>

\* Mutation of StartFails: the except clause of main clears the running
\* flag as well.
StartFailsClearsFlag(kf) ==
    /\ Alive
    /\ mainpc = "poll"
    /\ running
    /\ NotMonitored(KernelIdOf(kf), monitored_kernels)
    /\ monitored_kernels' = monitored_kernels \cup {KernelIdOf(kf)}
    /\ jupyter_process' =
         IF jupyter_process = "running" THEN "terminated" ELSE jupyter_process
    /\ running' = FALSE
    /\ mainpc' = "exited"
    /\ exit_code' = 1
    /\ scan_failed' = FALSE
    /\ UNCHANGED <<cell_count, log, threads, rescanned, rescanned_failed,
                   chan, sent>>
    /\ UNCHANGED threadVars

\* Mutation of StartFails: sys.exit(1) without terminating the server.
StartFailsLeavesServer(kf) ==
    /\ Alive
    /\ mainpc = "poll"
    /\ running
    /\ NotMonitored(KernelIdOf(kf), monitored_kernels)
    /\ monitored_kernels' = monitored_kernels \cup {KernelIdOf(kf)}
    /\ mainpc' = "exited"
    /\ exit_code' = 1
    /\ scan_failed' = FALSE
    /\ UNCHANGED <<running, cell_count, log, threads, rescanned,
                   rescanned_failed, jupyter_process, chan, sent>>
    /\ UNCHANGED threadVars

\* thread.start() raises inside the for loop (the id was already added at
\* line 210): the exception leaves monitor_all_kernels, main's except
\* clause requests terminate on the server and calls sys.exit(1).
StartFails(kf) ==
    /\ Alive
    /\ mainpc = "poll"
    /\ running
    /\ NotMonitored(KernelIdOf(kf), monitored_kernels)
    /\ monitored_kernels' = monitored_kernels \cup {KernelIdOf(kf)}
    /\ jupyter_process' =
         IF jupyter_process = "running" THEN "terminated" ELSE jupyter_process
    /\ mainpc' = "exited"
    /\ exit_code' = 1
    /\ scan_failed' = FALSE
    /\ UNCHANGED <<running, cell_count, log, threads, rescanned,
                   rescanned_failed, chan, sent>>
    /\ UNCHANGED threadVars

\* --------------------------------------------------------- signal_handler
\* SIGINT arrives while the main thread is in monitor_all_kernels; the
\* handler runs on the main thread, the monitor threads keep running.
\* Line 285: logger.running = False.
Signal ==
    /\ Alive
    /\ mainpc = "poll"
    /\ running' = FALSE
    /\ mainpc' = "h_terminate"
    /\ UNCHANGED <<cell_count, log, monitored_kernels, threads, rescanned,
                   jupyter_process, exit_code, chan, sent>>
    /\ UNCHANGED scanVars
    /\ UNCHANGED threadVars

\* Mutation of HandlerTerminate: the server is left running.
HandlerSkipsTerminate ==
    /\ Alive
    /\ mainpc = "h_terminate"
    /\ mainpc' = "h_footer"
    /\ UNCHANGED <<running, cell_count, log, monitored_kernels, threads,
                   rescanned, jupyter_process, exit_code, chan, sent>>
    /\ UNCHANGED scanVars
    /\ UNCHANGED threadVars

\* Lines 286-289: terminate the server and wait for it, when one was
\* started.
HandlerTerminate ==
    /\ Alive
    /\ mainpc = "h_terminate"
    /\ jupyter_process' =
         IF jupyter_process = "running" THEN "terminated" ELSE jupyter_process
    /\ mainpc' = "h_footer"
    /\ UNCHANGED <<running, cell_count, log, monitored_kernels, threads,
                   rescanned, exit_code, chan, sent>>
    /\ UNCHANGED scanVars
    /\ UNCHANGED threadVars

\* Lines 292-295: the three footer lines are a few bytes, buffered and
\* written by the close of the with block; cell_count is read when the
\* third line is formatted.
HandlerFooter ==
    /\ Alive
    /\ mainpc = "h_footer"
    /\ log' = Append(log, Footer(cell_count))
    /\ mainpc' = "h_exit"
    /\ UNCHANGED <<running, cell_count, monitored_kernels, threads, rescanned,
                   jupyter_process, exit_code, chan, sent>>
    /\ UNCHANGED scanVars
    /\ UNCHANGED threadVars

\* Lines 297-298: print, then sys.exit(0).  SystemExit is neither a
\* KeyboardInterrupt nor an Exception, so no except clause catches it.
HandlerExit ==
    /\ Alive
    /\ mainpc = "h_exit"
    /\ exit_code' = 0
    /\ mainpc' = "exited"
    /\ UNCHANGED <<running, cell_count, log, monitored_kernels, threads,
                   rescanned, jupyter_process, chan, sent>>
    /\ UNCHANGED scanVars
    /\ UNCHANGED threadVars

\* ------------------------------------------------------------ environment
\* Thread positions at which the kernel client's channels are open
\* (between kc.start_channels() and kc.stop_channels()).
Attached(k) == pc[k] \notin {"none", "attach", "failed", "stopped"}

\* The kernel k publishes a message on a channel of its attached client.
Deliver(k, input, max) ==
    /\ Alive
    /\ Attached(k)
    /\ sent < max
    /\ sent' = sent + 1
    /\ chan' = [chan EXCEPT ![k][input[1]] =
                  Append(@, Message(sent', input[1], input[2], input[3]))]
    /\ UNCHANGED <<running, cell_count, log>>
    /\ UNCHANGED mainVars
    /\ UNCHANGED threadVars

\* --------------------------------------------------------- monitor_kernel
\* Mutation of Attach: a failure to attach clears the running flag.
AttachFailureStopsAll(k, ok) ==
    /\ Alive
    /\ pc[k] = "attach"
    /\ pc' = [pc EXCEPT ![k] = IF ok THEN "loop" ELSE "failed"]
    /\ running' = (running /\ ok)
    /\ UNCHANGED <<cell_count, log, chan, sent, msg, loaded, entry, handled>>
    /\ UNCHANGED mainVars

\* Lines 43-50: KernelManager, load_connection_file, client,
\* start_channels.  Any exception is caught at line 77 and the thread ends.
Attach(k, ok) ==
    /\ Alive
    /\ pc[k] = "attach"
    /\ pc' = [pc EXCEPT ![k] = IF ok THEN "loop" ELSE "failed"]
    /\ UNCHANGED <<running, cell_count, log, chan, sent, msg, loaded, entry,
                   handled>>
    /\ UNCHANGED mainVars

\* Mutation of CheckRunning: while True.
CheckRunningIgnoresFlag(k) ==
    /\ Alive
    /\ pc[k] = "loop"
    /\ pc' = [pc EXCEPT ![k] = "iopub"]
    /\ UNCHANGED <<running, cell_count, log, chan, sent, msg, loaded, entry,
                   handled>>
    /\ UNCHANGED mainVars

\* Line 52: while self.running; line 75: kc.stop_channels() and return.
CheckRunning(k) ==
    /\ Alive
    /\ pc[k] = "loop"
    /\ pc' = [pc EXCEPT ![k] = IF running THEN "iopub" ELSE "stopped"]
    /\ UNCHANGED <<running, cell_count, log, chan, sent, msg, loaded, entry,
                   handled>>
    /\ UNCHANGED mainVars

\* The dict a process_* function builds for message m received by the
\* monitor of kernel_id.
MakeEntry(kernel_id, m, cell_number) ==
    LogLine("record", kernel_id, RecordType(m.channel, m.tag), cell_number, m)

\* Mutation of Receive: the newest message is handed out.
ReceiveNewest(queue) == queue[Len(queue)]

\* The message a channel hands out: get_*_msg takes the oldest one.
Receive(queue) == Head(queue)

\* Mutation of Consume: the message stays on the channel.
ConsumeNothing(queue) == queue

\* The channel after get_*_msg returned: the message is taken off it.
Consume(queue) == Tail(queue)

\* Lines 55-65, one channel: msg_ready(), get_*_msg, and the process_*
\* function up to its first access of shared state.
\*   no message ready             -> next channel
\*   execute_input                -> cell_count += 1 comes next
\*   another recognised kind      -> content.get builds the dict (raises
\*                                   when content is not a mapping)
\*   unrecognised kind            -> nothing, next channel
PollChannel(k) ==
    /\ Alive
    /\ pc[k] \in Channels
    /\ LET ch == pc[k]
           m == Receive(chan[k][ch])
       IN  IF chan[k][ch] = <<>>
           THEN /\ pc' = [pc EXCEPT ![k] = NextPos(ch)]
                /\ UNCHANGED <<chan, msg, entry, handled>>
           ELSE /\ chan' = [chan EXCEPT ![k][ch] = Consume(@)]
                /\ IF RecordType(ch, m.tag) = "none"
                   THEN /\ pc' = [pc EXCEPT ![k] = NextPos(ch)]
                        /\ handled' =
                             handled \cup {Handled(k, m, FALSE, FALSE)}
                        /\ UNCHANGED <<msg, entry>>
                   ELSE IF RecordType(ch, m.tag) = "input"
                   THEN /\ pc' = [pc EXCEPT ![k] = "load"]
                        /\ msg' = [msg EXCEPT ![k] = m]
                        /\ UNCHANGED <<entry, handled>>
                   ELSE IF m.shape = "nondict"
                   THEN /\ pc' = [pc EXCEPT ![k] = "except"]
                        /\ handled' =
                             handled \cup {Handled(k, m, FALSE, TRUE)}
                        /\ UNCHANGED <<msg, entry>>
                   ELSE /\ pc' = [pc EXCEPT ![k] = "log_entry"]
                        /\ msg' = [msg EXCEPT ![k] = m]
                        /\ entry' = [entry EXCEPT ![k] = MakeEntry(k, m, 0)]
                        /\ UNCHANGED handled
    /\ UNCHANGED <<running, cell_count, log, sent, loaded>>
    /\ UNCHANGED mainVars

\* Mutation of ReceiveEmpty: queue.Empty ends the loop instead of the pass.
ReceiveEmptyBreaks(k) ==
    /\ Alive
    /\ pc[k] \in Channels
    /\ chan[k][pc[k]] # <<>>
    /\ pc' = [pc EXCEPT ![k] = "stopped"]
    /\ UNCHANGED <<running, cell_count, log, chan, sent, msg, loaded, entry,
                   handled>>
    /\ UNCHANGED mainVars

\* Lines 69-70: msg_ready() was true but get_*_msg timed out with
\* queue.Empty; continue goes back to the while condition and the message
\* stays on its channel.
ReceiveEmpty(k) ==
    /\ Alive
    /\ pc[k] \in Channels
    /\ chan[k][pc[k]] # <<>>
    /\ pc' = [pc EXCEPT ![k] = "loop"]
    /\ UNCHANGED <<running, cell_count, log, chan, sent, msg, loaded, entry,
                   handled>>
    /\ UNCHANGED mainVars

\* Line 86, self.cell_count += 1: the attribute is read ...
LoadCount(k) ==
    /\ Alive
    /\ pc[k] = "load"
    /\ loaded' = [loaded EXCEPT ![k] = cell_count]
    /\ pc' = [pc EXCEPT ![k] = "store"]
    /\ UNCHANGED <<running, cell_count, log, chan, sent, msg, entry, handled>>
    /\ UNCHANGED mainVars

\* ... and the sum is stored, with no lock held in between.
StoreCount(k) ==
    /\ Alive
    /\ pc[k] = "store"
    /\ cell_count' = loaded[k] + 1
    /\ loaded' = [loaded EXCEPT ![k] = 0]
    /\ pc' = [pc EXCEPT ![k] = "build"]
    /\ UNCHANGED <<running, log, chan, sent, msg, entry, handled>>
    /\ UNCHANGED mainVars

\* Lines 87-94: the dict of an input record; 'cell_number' reads
\* self.cell_count again, content.get raises when content is not a mapping.
BuildInput(k) ==
    /\ Alive
    /\ pc[k] = "build"
    /\ IF msg[k].shape = "nondict"
       THEN /\ pc' = [pc EXCEPT ![k] = "except"]
            /\ handled' = handled \cup {Handled(k, msg[k], FALSE, TRUE)}
            /\ msg' = [msg EXCEPT ![k] = NoMsg]
            /\ UNCHANGED entry
       ELSE /\ pc' = [pc EXCEPT ![k] = "log_entry"]
            /\ entry' = [entry EXCEPT ![k] = MakeEntry(k, msg[k], cell_count)]
            /\ UNCHANGED <<msg, handled>>
    /\ UNCHANGED <<running, cell_count, log, chan, sent, loaded>>
    /\ UNCHANGED mainVars

\* Position after log_entry returned: the print of the process_* function
\* (which may raise) and then the next channel.
AfterLog(m) ==
    IF PrintRaises(m) THEN "except" ELSE NextPos(m.channel)

\* log_entry returned to process_*, which prints and returns or raises.
Processed(k) ==
    /\ pc' = [pc EXCEPT ![k] = AfterLog(msg[k])]
    /\ handled' = handled \cup {Handled(k, msg[k], TRUE, PrintRaises(msg[k]))}
    /\ msg' = [msg EXCEPT ![k] = NoMsg]
    /\ entry' = [entry EXCEPT ![k] = NoEntry]

\* log_entry, lines 37-39, for a record that fits the file buffer: both
\* f.write calls are buffered and reach the file in one write at close.
LogEntryBuffered(k) ==
    /\ Alive
    /\ pc[k] = "log_entry"
    /\ log' = log \o <<entry[k], Separator>>
    /\ Processed(k)
    /\ UNCHANGED <<running, cell_count, chan, sent, loaded>>
    /\ UNCHANGED mainVars

\* log_entry, line 38, for a record larger than the file buffer: the first
\* f.write reaches the file at once.
LogEntryWrite(k) ==
    /\ Alive
    /\ pc[k] = "log_entry"
    /\ log' = Append(log, entry[k])
    /\ pc' = [pc EXCEPT ![k] = "log_close"]
    /\ UNCHANGED <<running, cell_count, chan, sent, msg, loaded, entry,
                   handled>>
    /\ UNCHANGED mainVars

\* log_entry, line 39 and the end of the with block: the separator line
\* reaches the file.
LogEntryClose(k) ==
    /\ Alive
    /\ pc[k] = "log_close"
    /\ log' = Append(log, Separator)
    /\ Processed(k)
    /\ UNCHANGED <<running, cell_count, chan, sent, loaded>>
    /\ UNCHANGED mainVars

\* Mutation of Backoff: the exception ends the loop, as if it were caught
\* by the outer try of monitor_kernel.
BackoffReturns(k) ==
    /\ Alive
    /\ pc[k] = "except"
    /\ pc' = [pc EXCEPT ![k] = "stopped"]
    /\ UNCHANGED <<running, cell_count, log, chan, sent, msg, loaded, entry,
                   handled>>
    /\ UNCHANGED mainVars

\* Lines 71-73: except Exception: print, sleep(1), and back to the while
\* condition; the channels not yet polled in this pass are skipped.
Backoff(k) ==
    /\ Alive
    /\ pc[k] = "except"
    /\ pc' = [pc EXCEPT ![k] = "loop"]
    /\ UNCHANGED <<running, cell_count, log, chan, sent, msg, loaded, entry,
                   handled>>
    /\ UNCHANGED mainVars

\* ---------------------------------------------------------- specifications
\* The steps of the monitor thread of kernel k.
MonitorStep(k) ==
    \/ \E ok \in BOOLEAN : Attach(k, ok)
    \/ CheckRunning(k)
    \/ PollChannel(k)
    \/ ReceiveEmpty(k)
    \/ LoadCount(k)
    \/ StoreCount(k)
    \/ BuildInput(k)
    \/ LogEntryBuffered(k)
    \/ LogEntryWrite(k)
    \/ LogEntryClose(k)
    \/ Backoff(k)

\* Steps of the main thread and of the monitor threads, with the connection
\* files of dir appearing in and disappearing from the runtime directory.
ProgramStep(dir) ==
    \/ \E files \in SUBSET dir : Poll(files, FALSE)
    \/ \E kf \in dir : StartFails(kf)
    \/ Signal
    \/ HandlerTerminate
    \/ HandlerFooter
    \/ HandlerExit
    \/ \E k \in KernelIds : MonitorStep(k)

\* The whole life cycle: with or without a server process, any connection
\* files, scans that raise, a few messages.
Next ==
    \/ ProgramStep(KernelFiles)
    \/ \E files \in SUBSET KernelFiles : Poll(files, TRUE)
    \/ \E k \in KernelIds, input \in LifeInputs : Deliver(k, input, MaxMsgs)

Spec == Init /\ [][Next]_vars

\* Two kernels streaming execute_input, stream and execute_reply messages;
\* the stream messages carry a null name, so that the exception path of the
\* loop is taken as well.
NextStreams ==
    \/ ProgramStep({"kernel-k1", "kernel-k2"})
    \/ \E k \in KernelIds, input \in StreamInputs :
          Deliver(k, input, MaxStreamMsgs)

SpecStreams == InitNoStart /\ [][NextStreams]_vars

\* Every message kind and content shape, published by the one kernel whose
\* connection files exist.
NextKinds ==
    \/ ProgramStep({"kernel-k1", "kernel-kernel-k1"})
    \/ \E k \in KernelIds, input \in KindInputs :
          Deliver(k, input, MaxKindMsgs)

SpecKinds == InitNoStart /\ [][NextKinds]_vars

\* Two kernels publishing execute_input messages only, some with a content
\* that is no mapping.
NextCount ==
    \/ ProgramStep({"kernel-k1", "kernel-k2"})
    \/ \E k \in KernelIds, input \in CountInputs :
          Deliver(k, input, MaxCountMsgs)

SpecCount == InitNoStart /\ [][NextCount]_vars

\* One kernel, with every monitor thread scheduled again and again (the
\* interpreter switches threads every few milliseconds).  Nothing is assumed
\* of the main thread or of the kernels.
NextLive ==
    \/ ProgramStep({"kernel-k1"})
    \/ \E k \in KernelIds, input \in LifeInputs :
          Deliver(k, input, MaxLiveMsgs)

SpecLive ==
    /\ InitNoStart
    /\ [][NextLive]_vars
    /\ \A k \in KernelIds : WF_vars(MonitorStep(k))

\* ------------------------------------------------------------- properties
Records == {i \in 1..Len(log) : log[i].kind = "record"}
InputRecords == {i \in Records : log[i].type = "input"}
Footers == {i \in 1..Len(log) : log[i].kind = "footer"}

\* Monitors that are inside process_message for an execute_input message.
InInput(k) ==
    /\ pc[k] \in {"load", "store", "build", "log_entry", "log_close"}
    /\ msg[k].tag = "execute_input"

HandledInputs == {h \in handled : h.tag = "execute_input"}

\* C1: monitor_all_kernels starts at most one monitor thread per kernel id,
\* and a thread is only ever started for an id that was not yet in
\* monitored_kernels, so a scan that returns only monitored ids starts none.
C1_OneMonitorPerKernel ==
    [][\A k \in KernelIds :
          /\ threads'[k] <= 1
          /\ threads'[k] # threads[k] => k \notin monitored_kernels]_vars

\* C1 witness: a scan returned an id that was already monitored, and that
\* id still has its single thread.
C1_Rediscovered ==
    /\ rescanned
    /\ \E k \in monitored_kernels : threads[k] = 1

\* C2: log appends are serialized: a record block in the log is directly
\* followed by its separator line, never by another record.
C2_LogSerialized ==
    \A i \in Records : i < Len(log) => log[i + 1].kind # "record"

\* C3: once K execute_input messages have been processed and none is in
\* progress, cell_count is K.
C3_NoLostIncrement ==
    (\A k \in KernelIds : ~InInput(k))
        => cell_count = Cardinality(HandledInputs)

\* C4: the footer is written once and nothing is appended to the log after
\* it.
C4_FooterLast ==
    /\ Cardinality(Footers) <= 1
    /\ \A i \in Footers : i = Len(log)

\* C5: when the process has exited after a shutdown request, the total of
\* the footer is the number of input records in the log.
C5_FooterTotalMatches ==
    exit_code = 0 =>
        \A i \in Footers : log[i].cell_number = Cardinality(InputRecords)

\* C6: the input records of the log carry pairwise distinct cell numbers.
C6_CellNumbersDistinct ==
    \A i, j \in InputRecords :
        i # j => log[i].cell_number # log[j].cell_number

\* C7: the records of one channel of one kernel are in the log in the order
\* in which the kernel published their messages.
C7_ChannelOrder ==
    \A i, j \in Records :
        (/\ i < j
         /\ log[i].kernel_id = log[j].kernel_id
         /\ log[i].channel = log[j].channel) => log[i].id < log[j].id

\* C7 witness: the log holds two records of one channel of one kernel.
C7_TwoRecordsOneChannel ==
    \E i, j \in Records :
        /\ i < j
        /\ log[i].kernel_id = log[j].kernel_id
        /\ log[i].channel = log[j].channel

\* The table of the Message Classifier: <<channel, kind tag, record type>>;
\* every kind tag of the input-request channel gives stdin.
ClassifierTable ==
    {<<"iopub", "execute_input", "input">>,
     <<"iopub", "stream", "stream">>,
     <<"iopub", "execute_result", "output">>,
     <<"iopub", "error", "error">>,
     <<"iopub", "display_data", "display">>,
     <<"shell", "execute_reply", "execute_reply">>}
    \cup {<<"stdin", input[2], "stdin">> : input \in KindInputs}

InTable(ch, tag) == \E row \in ClassifierTable : row[1] = ch /\ row[2] = tag

\* C8: every record has the type the table gives for the channel and kind
\* tag of its message, and every message of the table whose content is a
\* mapping has, once processed, exactly one record, which carries the
\* kernel id of the monitor that received it.
C8_ClassifierTable ==
    /\ \A i \in Records :
          <<log[i].channel, log[i].tag, log[i].type>> \in ClassifierTable
    /\ \A h \in handled :
          (InTable(h.channel, h.tag) /\ h.shape # "nondict") =>
              /\ Cardinality({i \in Records : log[i].id = h.id}) = 1
              /\ \A i \in Records :
                    log[i].id = h.id => log[i].kernel_id = h.kernel_id

\* C8 witness: an execute_reply of the control channel and a message of the
\* input-request channel have been processed into records.
C8_ShellAndStdinLogged ==
    /\ \E h \in handled : h.channel = "shell" /\ h.logged
    /\ \E h \in handled : h.channel = "stdin" /\ h.logged

\* C9: the step that ends the processing of a message with an unrecognised
\* kind tag leaves the log and cell_count unchanged, raises nothing and
\* takes the monitor to the next channel of its pass.
C9_UnrecognisedIgnored ==
    [][\A h \in handled' \ handled :
          ~InTable(h.channel, h.tag) =>
              /\ log' = log
              /\ cell_count' = cell_count
              /\ ~h.raised /\ ~h.logged
              /\ pc'[h.kernel_id] = NextPos(h.channel)]_vars

\* C9 witness: unrecognised messages of the event-stream and of the control
\* channel have been processed.
C9_UnrecognisedSeen ==
    /\ \E h \in handled : h.channel = "iopub" /\ ~InTable(h.channel, h.tag)
    /\ \E h \in handled : h.channel = "shell" /\ ~InTable(h.channel, h.tag)

\* C10: an exception raised while a message is processed takes the monitor
\* to the except clause inside its loop, from there to the while condition,
\* and from there, while running is true, to the next pass.
C10_ErrorKeepsMonitor ==
    [][\A k \in KernelIds :
          /\ (\E h \in handled' \ handled : h.kernel_id = k /\ h.raised)
                => pc'[k] = "except"
          /\ (pc[k] = "except" /\ pc'[k] # pc[k]) => pc'[k] = "loop"
          /\ (pc[k] = "loop" /\ pc'[k] # pc[k] /\ running)
                => pc'[k] = "iopub"]_vars

\* C10 witness: a monitor has logged a message it received after one whose
\* processing raised.
C10_LoggedAfterError ==
    \E h1, h2 \in handled :
        /\ h1.kernel_id = h2.kernel_id
        /\ h1.raised
        /\ h1.id < h2.id
        /\ h2.logged /\ ~h2.raised

\* C11: the step on which a monitor fails to attach changes nothing but that
\* monitor's position: the log, the running flag, the cell counter,
\* monitored_kernels, the other monitors and the main thread are left as
\* they were; and the log never holds a record of a monitor that failed to
\* attach.
C11_AttachFailureIsLocal ==
    /\ [](\A k \in KernelIds :
            pc[k] = "failed" =>
                \A i \in Records : log[i].kernel_id # k)
    /\ [][\A k \in KernelIds :
            (pc[k] = "attach" /\ pc'[k] = "failed") =>
                /\ log' = log
                /\ running' = running
                /\ cell_count' = cell_count
                /\ monitored_kernels' = monitored_kernels
                /\ \A j \in KernelIds \ {k} : pc'[j] = pc[j]
                /\ mainpc' = mainpc
                /\ exit_code' = exit_code]_vars

\* C11 witness: one monitor failed to attach; the main loop has scanned
\* again since and is still polling, and another monitor is writing a record.
C11_OthersCarryOn ==
    \E k \in KernelIds :
        /\ pc[k] = "failed"
        /\ rescanned_failed
        /\ running /\ mainpc = "poll"
        /\ \E j \in KernelIds \ {k} : pc[j] = "log_entry"

\* C12: a monitor that failed to attach stays failed, and no further thread
\* is started for its kernel id, whatever the later scans return.
C12_FailedNeverRetried ==
    [][\A k \in KernelIds :
          pc[k] = "failed" =>
              /\ pc'[k] = "failed"
              /\ threads'[k] = threads[k]]_vars

\* C12 witness: a scan returned the connection file of a kernel whose
\* monitor had failed to attach, and that kernel still has had one thread.
C12_FailedRediscovered ==
    /\ rescanned_failed
    /\ \E k \in KernelIds : pc[k] = "failed" /\ threads[k] = 1

\* C13: a scan that raises starts no thread, leaves monitored_kernels and
\* every monitor as they were and leaves the main thread in its polling
\* loop, alive; and as long as running is true after a failed scan, the
\* main thread is at the point where it scans again.
C13_ScanFailureSkipsPoll ==
    /\ [](scan_failed /\ running /\ Alive => mainpc = "poll")
    /\ [][scan_failed' =>
            /\ threads' = threads
            /\ monitored_kernels' = monitored_kernels
            /\ (~scan_failed =>
                    /\ pc' = pc
                    /\ mainpc = "poll" /\ mainpc' = "poll"
                    /\ running'
                    /\ exit_code' = -1)]_vars

\* C13 witness: the last scan raised while a kernel was being monitored,
\* and the main thread is in its loop with running true.
C13_ScanFailed ==
    /\ scan_failed
    /\ mainpc = "poll" /\ running /\ Alive
    /\ \E k \in monitored_kernels : Attached(k)

\* C14: an attached monitor stops (kc.stop_channels() and return) only from
\* the while condition, and only when running is false there: not from a
\* channel poll, an empty receive, the processing of a message or the except
\* clause.
C14_StopsOnlyOnFlag ==
    [][\A k \in KernelIds :
          (pc'[k] = "stopped" /\ pc[k] # "stopped") =>
              /\ pc[k] = "loop"
              /\ ~running]_vars

\* C14 witness: a monitor has stopped after a message whose processing
\* raised and one it ignored.
C14_StoppedAfterErrors ==
    \E k \in KernelIds :
        /\ pc[k] = "stopped"
        /\ \E h \in handled : h.kernel_id = k /\ h.raised
        /\ \E h \in handled : h.kernel_id = k /\ ~h.raised /\ ~h.logged

\* The channels monitor k can still receive from before it reads the
\* running flag again.
ChannelsAhead(k) ==
    CASE pc[k] = "iopub" -> {"iopub", "shell", "stdin"}
      [] pc[k] = "shell" -> {"shell", "stdin"}
      [] pc[k] = "stdin" -> {"stdin"}
      [] pc[k] \in {"load", "store", "build", "log_entry", "log_close"} ->
            IF AfterLog(msg[k]) = "except" THEN {}
            ELSE IF msg[k].channel = "iopub" THEN {"shell", "stdin"}
            ELSE IF msg[k].channel = "shell" THEN {"stdin"}
            ELSE {}
      [] OTHER -> {}

\* C15: once running is false, an attached monitor that keeps being
\* scheduled stops, unless the process exits first; and until then it
\* receives at most one more message from each channel: a receive from a
\* channel is only possible while the channel is still ahead in the current
\* pass, and with running false the channels ahead only shrink.
C15_CooperativeCancellation ==
    /\ \A k \in KernelIds :
          (~running /\ Attached(k)) ~> (pc[k] = "stopped" \/ ~Alive)
    /\ [][\A k \in KernelIds : ~running =>
            /\ ChannelsAhead(k)' \subseteq ChannelsAhead(k)
            /\ \A ch \in Channels :
                  Len(chan'[k][ch]) < Len(chan[k][ch]) =>
                      /\ ch \in ChannelsAhead(k)
                      /\ ch \notin ChannelsAhead(k)']_vars

\* C15 witness: with the process still alive, a monitor has stopped after
\* handling a message, leaving another message unread on a channel.
C15_StoppedWithUnread ==
    \E k \in KernelIds :
        /\ pc[k] = "stopped"
        /\ ~running /\ Alive
        /\ \E h \in handled : h.kernel_id = k
        /\ \E ch \in Channels : chan[k][ch] # <<>>

\* C16: the signal handler clears running, then terminates the server, then
\* appends the footer with the cell count read at that moment, then exits
\* with code 0.  No footer is in the log while running is true or the server
\* is still running, and exit code 0 is only reached after the footer.
C16_ShutdownOrder ==
    /\ [](/\ mainpc \in {"h_terminate", "h_footer", "h_exit"} => ~running
          /\ mainpc \in {"h_footer", "h_exit"} => jupyter_process # "running"
          /\ Footers # {} => ~running /\ jupyter_process # "running"
          /\ mainpc = "h_exit" => Footers # {}
          /\ exit_code = 0 =>
                Footers # {} /\ ~running /\ jupyter_process # "running")
    /\ [][/\ mainpc' # mainpc =>
               \/ mainpc = "poll" /\ mainpc' \in {"h_terminate", "exited"}
               \/ mainpc = "h_terminate" /\ mainpc' = "h_footer"
               \/ mainpc = "h_footer" /\ mainpc' = "h_exit"
               \/ mainpc = "h_exit" /\ mainpc' = "exited" /\ exit_code' = 0
          /\ Footers' # Footers =>
               /\ mainpc = "h_footer"
               /\ log' = Append(log, Footer(cell_count))]_vars

\* C16 witness: the process has exited with code 0 after terminating the
\* server it had started.
C16_CleanExit ==
    /\ exit_code = 0
    /\ jupyter_process = "terminated"
    /\ Footers # {}

\* C17: running is true from the start for as long as no signal handler
\* has run; the only step that changes it is the signal handler's first
\* statement, which sets it false.
C17_FlagClearedOnce ==
    /\ [](running <=>
            ~(mainpc \in {"h_terminate", "h_footer", "h_exit"}
              \/ exit_code = 0))
    /\ [][running' # running =>
            /\ running /\ ~running'
            /\ mainpc = "poll" /\ mainpc' = "h_terminate"]_vars

\* C17 witness: running is false and monitors and handler have moved on.
C17_FlagFalse ==
    /\ ~running
    /\ mainpc = "exited"
    /\ \E k \in KernelIds : pc[k] = "stopped"

\* C18: an exception that leaves monitor_all_kernels ends the process with
\* exit code 1, and at exit code 1 a server that was started has been asked
\* to terminate.
C18_ErrorExit ==
    /\ [](exit_code = 1 => mainpc = "exited" /\ jupyter_process # "running")
    /\ [][(mainpc = "poll" /\ mainpc' = "exited") =>
            /\ exit_code' = 1
            /\ jupyter_process' # "running"
            /\ jupyter_process = "running" => jupyter_process' = "terminated"
         ]_vars

\* C18 witness: exit code 1 with the started server terminated.
C18_ErrorExitTerminated ==
    /\ exit_code = 1
    /\ jupyter_process = "terminated"

\* The number of execute_input messages of the iopub channel that monitors
\* have begun to process.
InputsBegun ==
    Cardinality({h \in HandledInputs : h.channel = "iopub"})
        + Cardinality({k \in KernelIds : InInput(k)})

C19_NeverOverCounts == cell_count <= InputsBegun

\* C19: cell_count never decreases, and it is never greater than the number
\* of execute_input messages that monitors have begun to process.
C19_CountMonotoneBounded ==
    /\ [](C19_NeverOverCounts)
    /\ [][cell_count' >= cell_count]_vars

\* The records of the log that were built from the message with this id.
RecordsOf(id) == {i \in Records : log[i].id = id}

\* C20: a message whose processing has ended is on no channel and in no
\* monitor's hands, and its processing ended once; when it ended with an
\* exception raised before log_entry there is no record of it, and after it
\* ended with an exception no record of it is appended.  Every record was
\* built from one received message of a recognised kind whose content was
\* a mapping, and no message has two records.
C20_RaisedMessageDropped ==
    /\ [](\A h \in handled :
            /\ \A k \in KernelIds :
                  /\ msg[k].id # h.id
                  /\ \A ch \in Channels :
                        \A n \in 1..Len(chan[k][ch]) :
                            chan[k][ch][n].id # h.id
            /\ \A g \in handled : g.id = h.id => g = h
            /\ (h.raised /\ ~h.logged) => RecordsOf(h.id) = {})
    /\ [](\A i \in Records :
            /\ RecordsOf(log[i].id) = {i}
            /\ log[i].type = RecordType(log[i].channel, log[i].tag)
            /\ log[i].type # "none"
            /\ \/ \E k \in KernelIds :
                     /\ pc[k] = "log_close"
                     /\ k = log[i].kernel_id
                     /\ msg[k].id = log[i].id
                     /\ msg[k].shape # "nondict"
               \/ \E h \in handled :
                     /\ h.id = log[i].id
                     /\ h.kernel_id = log[i].kernel_id
                     /\ h.logged
                     /\ h.shape # "nondict")
    /\ [][\A h \in handled :
            h.raised => RecordsOf(h.id)' = RecordsOf(h.id)]_vars

\* C20 witness: a monitor has dropped a message whose dict could not be
\* built, and has afterwards written the record of a message whose print
\* raised.
C20_DroppedThenLogged ==
    \E h1, h2 \in handled :
        /\ h1.kernel_id = h2.kernel_id
        /\ h1.id < h2.id
        /\ h1.raised /\ ~h1.logged
        /\ h2.raised /\ h2.logged
        /\ RecordsOf(h1.id) = {}
        /\ RecordsOf(h2.id) # {}

====
